---- MODULE Spec2Model ----
(***************************************************************************)
(* Settings loading (web/src/app/settings.rs) and process start-up         *)
(* (web/src/main.rs).                                                       *)
(*                                                                         *)
(* Strings are sequences of one-character strings, so that lower-casing,   *)
(* prefix stripping, `format!` and integer parsing are computed and not    *)
(* assumed.  A configuration value is a record                              *)
(*     [kind |-> "String", str |-> s,    tab |-> << >>]                     *)
(*     [kind |-> "Table",  str |-> << >>, tab |-> [key |-> value]]          *)
(* which are the two kinds of `config::Value` the modelled inputs produce. *)
(*                                                                         *)
(* settings.rs is written against the crates config (0.9) and rocket (0.4).*)
(* What their functions do is modelled at the place settings.rs calls      *)
(* them:                                                                   *)
(*  - Config keeps defaults, sources and overrides apart; every            *)
(*    set_default, set and merge ends in refresh, which rebuilds the cache  *)
(*    from the defaults, then the sources in merge order, then the         *)
(*    overrides (the values given to `set`);                                *)
(*  - a table laid over a table is merged key by key;                      *)
(*  - a File that is not required is an empty source when it cannot be     *)
(*    found or read, and an error when its text does not parse;            *)
(*  - Environment takes the variables whose lower-cased name starts with   *)
(*    the lower-cased prefix and "_", and lower-cases the rest as the key;  *)
(*  - a u16 is deserialized as `into_int()? as u16`;                       *)
(*  - rocket's set_address and set_secret_key return a Result and leave    *)
(*    the configuration alone when they refuse the value.                  *)
(***************************************************************************)
EXTENDS Integers, Sequences, FiniteSets, TLC

VARIABLES env, fs, pc, settings, rocket, stderr

vars == <<env, fs, pc, settings, rocket, stderr>>

-----------------------------------------------------------------------------
(* String helpers                                                          *)

UpperToLower ==
  [c \in {"A","B","C","D","E","F","G","H","I","J","K","L","M",
          "N","O","P","Q","R","S","T","U","V","W","X","Y","Z"} |->
     CASE c = "A" -> "a" [] c = "B" -> "b" [] c = "C" -> "c" [] c = "D" -> "d"
       [] c = "E" -> "e" [] c = "F" -> "f" [] c = "G" -> "g" [] c = "H" -> "h"
       [] c = "I" -> "i" [] c = "J" -> "j" [] c = "K" -> "k" [] c = "L" -> "l"
       [] c = "M" -> "m" [] c = "N" -> "n" [] c = "O" -> "o" [] c = "P" -> "p"
       [] c = "Q" -> "q" [] c = "R" -> "r" [] c = "S" -> "s" [] c = "T" -> "t"
       [] c = "U" -> "u" [] c = "V" -> "v" [] c = "W" -> "w" [] c = "X" -> "x"
       [] c = "Y" -> "y" [] c = "Z" -> "z"]

\* str::to_lowercase
to_lowercase(s) ==
  [i \in DOMAIN s |-> IF s[i] \in DOMAIN UpperToLower THEN UpperToLower[s[i]] ELSE s[i]]

\* str::starts_with
starts_with(s, p) == Len(s) >= Len(p) /\ SubSeq(s, 1, Len(p)) = p

DigitValue ==
  [c \in {"0","1","2","3","4","5","6","7","8","9"} |->
     CASE c = "0" -> 0 [] c = "1" -> 1 [] c = "2" -> 2 [] c = "3" -> 3
       [] c = "4" -> 4 [] c = "5" -> 5 [] c = "6" -> 6 [] c = "7" -> 7
       [] c = "8" -> 8 [] c = "9" -> 9]

RECURSIVE DigitsValue(_)
DigitsValue(s) ==
  IF s = << >> THEN 0
  ELSE 10 * DigitsValue(SubSeq(s, 1, Len(s) - 1)) + DigitValue[s[Len(s)]]

\* <i64 as FromStr>::from_str: an optional sign, then one or more decimal
\* digits.  (The inputs of the model stay far below the 64-bit limit.)
parse_i64(s) ==
  LET signed == s # << >> /\ s[1] \in {"+", "-"}
      digits == IF signed THEN Tail(s) ELSE s
  IN  IF digits # << >> /\ \A i \in DOMAIN digits : digits[i] \in DOMAIN DigitValue
        THEN [ok |-> TRUE,
              v  |-> IF signed /\ s[1] = "-" THEN 0 - DigitsValue(digits)
                     ELSE DigitsValue(digits)]
        ELSE [ok |-> FALSE, v |-> 0]

U16Modulus == 65536

\* the cast `as u16` of an i64: the low 16 bits
as_u16(n) == n % U16Modulus

-----------------------------------------------------------------------------
(* String constants of the program                                         *)

S_port         == <<"p","o","r","t">>
S_address      == <<"a","d","d","r","e","s","s">>
S_log          == <<"l","o","g">>
S_workers      == <<"w","o","r","k","e","r","s">>
S_secret_key   == <<"s","e","c","r","e","t","_","k","e","y">>
S_static_dir   == <<"s","t","a","t","i","c","_","d","i","r">>
S_static_route == <<"s","t","a","t","i","c","_","r","o","u","t","e">>
S_extras       == <<"e","x","t","r","a","s">>
S_PORT         == <<"P","O","R","T">>
S_APP_ENV      == <<"A","P","P","_","E","N","V">>
S_config       == <<"c","o","n","f","i","g">>
S_config_dash  == <<"c","o","n","f","i","g","-">>
S_development  == <<"d","e","v","e","l","o","p","m","e","n","t">>
S_production   == <<"p","r","o","d","u","c","t","i","o","n">>
S_staging      == <<"s","t","a","g","i","n","g">>
S_public       == <<"/","p","u","b","l","i","c">>
S_slash_static == <<"/","s","t","a","t","i","c">>

ENV_PREFIX == <<"A","P","P">>

\* the filter list with secret_key forgotten
FILTER_EXTRA_KEYS_NoSecretKey == <<S_address, S_port, S_log, S_workers>>

FILTER_EXTRA_KEYS == <<S_address, S_port, S_log, S_workers, S_secret_key>>

-----------------------------------------------------------------------------
(* config::Value                                                           *)

StringValue(s) == [kind |-> "String", str |-> s, tab |-> << >>]
TableValue(t)  == [kind |-> "Table", str |-> << >>, tab |-> t]
EmptyMap       == << >>

\* HashMap::insert
MapInsert(m, k, v) == [x \in DOMAIN m \cup {k} |-> IF x = k THEN v ELSE m[x]]

\* HashMap::remove
MapRemove(m, k) == [x \in DOMAIN m \ {k} |-> m[x]]

-----------------------------------------------------------------------------
(* config::path::Expression::set for an identifier: a table is merged into *)
(* the value already stored under the key, key by key (a deep merge); any  *)
(* other value replaces it.                                                *)

RECURSIVE PathSet(_, _, _), PathSetAll(_, _, _)

PathSet(root, id, value) ==
  LET tbl == IF root.kind = "Table" THEN root.tab ELSE EmptyMap
  IN  IF value.kind = "Table"
        THEN LET target == IF id \in DOMAIN tbl THEN tbl[id] ELSE TableValue(EmptyMap)
             IN  TableValue(MapInsert(tbl, id,
                                      PathSetAll(target, value.tab, DOMAIN value.tab)))
        ELSE TableValue(MapInsert(tbl, id, value))

\* `for (key, val) in map { Expression::Identifier(key).set(root, val) }`
PathSetAll(root, map, keys) ==
  IF keys = {} THEN root
  ELSE LET k == CHOOSE x \in keys : TRUE
       IN  PathSetAll(PathSet(root, k, map[k]), map, keys \ {k})

-----------------------------------------------------------------------------
(* config::Source: File and Environment.  The process environment and the  *)
(* working directory are the record w = [env, fs].                         *)

File_with_name(name) ==
  [type |-> "File", name |-> name, required |-> TRUE, ignore_empty |-> FALSE]

required(source, b) == [source EXCEPT !.required = b]

Environment_with_prefix(prefix) ==
  [type |-> "Environment", name |-> prefix, required |-> FALSE, ignore_empty |-> FALSE]

\* ignore_empty that leaves the flag as it was
ignore_empty_Dropped(source, b) == source

ignore_empty(source, b) == [source EXCEPT !.ignore_empty = b]

\* <File as Source>::collect.  Finding and reading the file is one step:
\* when it fails (no such file, or a file that cannot be read) the source is
\* empty unless it is required.  Text that was read and does not parse is an
\* error whether the file is required or not.
FileCollect(source, w) ==
  IF source.name \notin DOMAIN w.fs \/ w.fs[source.name].state = "unreadable"
    THEN [ok |-> ~source.required, map |-> EmptyMap]
  ELSE IF w.fs[source.name].state = "malformed"
    THEN [ok |-> FALSE, map |-> EmptyMap]
  ELSE [ok |-> TRUE, map |-> w.fs[source.name].tab]

\* <Environment as Source>::collect: the variables whose lower-cased name
\* starts with the lower-cased "<prefix>_", without the prefix, lower-cased.
EnvironmentCollect(source, w) ==
  LET prefix_pattern == source.name \o <<"_">>
      kept == {n \in DOMAIN w.env :
                 /\ ~(source.ignore_empty /\ w.env[n] = << >>)
                 /\ starts_with(to_lowercase(n), to_lowercase(prefix_pattern))}
      KeyOf(n) == to_lowercase(SubSeq(n, Len(prefix_pattern) + 1, Len(n)))
  IN  [ok  |-> TRUE,
       map |-> [k \in {KeyOf(n) : n \in kept} |->
                  StringValue(w.env[CHOOSE n \in kept : KeyOf(n) = k])]]

Collect(source, w) ==
  IF source.type = "File" THEN FileCollect(source, w) ELSE EnvironmentCollect(source, w)

\* <Vec<Box<dyn Source>> as Source>::collect: the sources in the order they
\* were merged, each laid over the ones before it; the first error ends it.
RECURSIVE SourcesCollect(_, _, _), CollectTo(_, _, _, _)
SourcesCollect(sources, w, acc) ==
  IF sources = << >> THEN [ok |-> TRUE, map |-> acc.tab]
  ELSE CollectTo(Collect(Head(sources), w), Tail(sources), w, acc)

\* Source::collect_to: what one source collected, laid over `acc`
CollectTo(r, rest, w, acc) ==
  IF ~r.ok THEN [ok |-> FALSE, map |-> EmptyMap]
  ELSE SourcesCollect(rest, w, PathSetAll(acc, r.map, DOMAIN r.map))

-----------------------------------------------------------------------------
(* config::Config                                                          *)

Config_new ==
  [defaults |-> EmptyMap, overrides |-> EmptyMap, sources |-> << >>,
   cache |-> TableValue(EmptyMap)]

\* the cache of a refresh whose sources collected `collected`
Refreshed(conf, collected) ==
  IF ~collected.ok THEN [ok |-> FALSE, conf |-> conf]
  ELSE [ok   |-> TRUE,
        conf |-> [conf EXCEPT !.cache =
                    PathSetAll(
                      PathSetAll(
                        PathSetAll(TableValue(EmptyMap), conf.defaults, DOMAIN conf.defaults),
                        collected.map, DOMAIN collected.map),
                      conf.overrides, DOMAIN conf.overrides)]]

\* Config::refresh: defaults, then the sources, then the overrides
refresh(conf, w) == Refreshed(conf, SourcesCollect(conf.sources, w, TableValue(EmptyMap)))

\* Config::set_default
set_default(conf, key, value, w) ==
  refresh([conf EXCEPT !.defaults = MapInsert(conf.defaults, key, value)], w)

\* Config::set
set(conf, key, value, w) ==
  refresh([conf EXCEPT !.overrides = MapInsert(conf.overrides, key, value)], w)

\* Config::merge
merge(conf, source, w) ==
  refresh([conf EXCEPT !.sources = Append(conf.sources, source)], w)

-----------------------------------------------------------------------------
(* Deserialization of a merged value (Config::try_into)                    *)

S_true  == <<"t","r","u","e">>
S_on    == <<"o","n">>
S_yes   == <<"y","e","s">>
S_false == <<"f","a","l","s","e">>
S_off   == <<"o","f","f">>
S_no    == <<"n","o">>

\* Value::into_int: a string that spells a boolean counts as 1 or 0,
\* any other string is parsed as a decimal integer.
into_int(value) ==
  IF value.kind # "String" THEN [ok |-> FALSE, v |-> 0]
  ELSE IF to_lowercase(value.str) \in {S_true, S_on, S_yes} THEN [ok |-> TRUE, v |-> 1]
  ELSE IF to_lowercase(value.str) \in {S_false, S_off, S_no} THEN [ok |-> TRUE, v |-> 0]
  ELSE parse_i64(value.str)

\* Value::into_str
into_str(value) ==
  IF value.kind = "String" THEN [ok |-> TRUE, v |-> value.str]
  ELSE [ok |-> FALSE, v |-> << >>]

\* deserialize_u16: `visit_u16(self.into_int()? as u16)`, the integer is
\* cut to its low 16 bits, a value out of range is no error.
deserialize_u16(value) ==
  LET r == into_int(value)
  IN  [ok |-> r.ok, v |-> IF r.ok THEN as_u16(r.v) ELSE 0]

None    == [some |-> FALSE, v |-> << >>]
NoneU16 == [some |-> FALSE, v |-> 0]
Some(x) == [some |-> TRUE, v |-> x]

\* Option<String> field: a missing key is None
OptionString(tbl, key) ==
  IF key \notin DOMAIN tbl THEN [ok |-> TRUE, v |-> None]
  ELSE LET r == into_str(tbl[key]) IN [ok |-> r.ok, v |-> IF r.ok THEN Some(r.v) ELSE None]

\* Option<u16> field
OptionU16(tbl, key) ==
  IF key \notin DOMAIN tbl THEN [ok |-> TRUE, v |-> NoneU16]
  ELSE LET r == deserialize_u16(tbl[key])
       IN  [ok |-> r.ok, v |-> IF r.ok THEN Some(r.v) ELSE NoneU16]

\* String field: a missing key is an error
RequiredString(tbl, key) ==
  IF key \notin DOMAIN tbl THEN [ok |-> FALSE, v |-> << >>] ELSE into_str(tbl[key])

\* HashMap<String, String>: a table all of whose values are strings
StringMap(value) ==
  IF value.kind = "Table" /\ \A k \in DOMAIN value.tab : into_str(value.tab[k]).ok
    THEN [ok |-> TRUE, v |-> [k \in DOMAIN value.tab |-> into_str(value.tab[k]).v]]
    ELSE [ok |-> FALSE, v |-> EmptyMap]

NoSettings ==
  [static_dir |-> << >>, static_route |-> << >>, address |-> None, port |-> NoneU16,
   log |-> None, workers |-> NoneU16, secret_key |-> None, extras |-> EmptyMap]

Err == [ok |-> FALSE, value |-> NoSettings]

\* #[derive(Deserialize)] struct Settings: keys that name no field are ignored
DeserializeSettings(cache) ==
  LET tbl          == cache.tab
      static_dir   == RequiredString(tbl, S_static_dir)
      static_route == RequiredString(tbl, S_static_route)
      address      == OptionString(tbl, S_address)
      port         == OptionU16(tbl, S_port)
      log          == OptionString(tbl, S_log)
      workers      == OptionU16(tbl, S_workers)
      secret_key   == OptionString(tbl, S_secret_key)
      extras       == IF S_extras \in DOMAIN tbl THEN StringMap(tbl[S_extras])
                      ELSE [ok |-> FALSE, v |-> EmptyMap]
  IN  IF /\ static_dir.ok /\ static_route.ok /\ address.ok /\ port.ok
         /\ log.ok /\ workers.ok /\ secret_key.ok /\ extras.ok
        THEN [ok    |-> TRUE,
              value |-> [static_dir |-> static_dir.v, static_route |-> static_route.v,
                         address |-> address.v, port |-> port.v, log |-> log.v,
                         workers |-> workers.v, secret_key |-> secret_key.v,
                         extras |-> extras.v]]
        ELSE Err

-----------------------------------------------------------------------------
(* Settings::new                                                           *)

CARGO_MANIFEST_DIR == <<"/","w","e","b">>

\* map_to_env!, not strict: a variable that is not set is skipped
map_to_env(conf, setting_name, env_name, w) ==
  IF env_name \in DOMAIN w.env
    THEN set(conf, setting_name, StringValue(w.env[env_name]), w)
    ELSE [ok |-> TRUE, conf |-> conf]

\* var("APP_ENV").unwrap_or(String::from(""))
AppEnv(w) == IF S_APP_ENV \in DOMAIN w.env THEN w.env[S_APP_ENV] ELSE << >>

\* the match on APP_ENV done on the lower-cased value
MergeEnvFile_AnyCase(conf, w) ==
  IF to_lowercase(AppEnv(w)) \in {S_development, S_production, S_staging}
    THEN merge(conf, required(File_with_name(S_config_dash \o AppEnv(w)), FALSE), w)
    ELSE [ok |-> TRUE, conf |-> conf]

\* the match on APP_ENV
MergeEnvFile(conf, w) ==
  IF AppEnv(w) \in {S_development, S_production, S_staging}
    THEN merge(conf, required(File_with_name(S_config_dash \o AppEnv(w)), FALSE), w)
    ELSE [ok |-> TRUE, conf |-> conf]

\* the loop over FILTER_EXTRA_KEYS
RECURSIVE FilterExtras(_, _)
FilterExtras(map, keys) ==
  IF keys = << >> THEN map ELSE FilterExtras(MapRemove(map, Head(keys)), Tail(keys))

\* lines 152-156: extras_config as a map of strings, without the filtered keys
FilteredMap(extras_config, extras_map) ==
  IF extras_config.ok /\ extras_map.ok
    THEN [ok |-> TRUE, v |-> FilterExtras(extras_map.v, FILTER_EXTRA_KEYS)]
    ELSE [ok |-> FALSE, v |-> EmptyMap]

TryIntoMap(extras_config) == FilteredMap(extras_config, StringMap(extras_config.conf.cache))

\* lines 149-156: the prefixed variables once more, as a map of strings
ExtrasMap(w) ==
  TryIntoMap(merge(Config_new, ignore_empty(Environment_with_prefix(ENV_PREFIX), TRUE), w))

\* line 158: conf.set("extras", extras_map)
SetMap(conf, ex, w) ==
  IF ex.ok
    THEN set(conf, S_extras, TableValue([k \in DOMAIN ex.v |-> StringValue(ex.v[k])]), w)
    ELSE [ok |-> FALSE, conf |-> conf]

\* lines 149-158
SetExtras(conf, w) == SetMap(conf, ExtrasMap(w), w)

\* the statements of Settings::new that change `conf`, in program order
Statements ==
  << [op |-> "set_default", key |-> S_static_dir,
      value |-> StringValue(CARGO_MANIFEST_DIR \o S_public)],
     [op |-> "set_default", key |-> S_static_route, value |-> StringValue(S_slash_static)],
     [op |-> "map_to_env", key |-> S_port, var |-> S_PORT],
     [op |-> "merge", source |-> required(File_with_name(S_config), FALSE)],
     [op |-> "match_app_env"],
     [op |-> "merge", source |-> ignore_empty(Environment_with_prefix(ENV_PREFIX), TRUE)],
     [op |-> "set_extras"] >>

Execute(conf, stmt, w) ==
  CASE stmt.op = "set_default"   -> set_default(conf, stmt.key, stmt.value, w)
    [] stmt.op = "map_to_env"    -> map_to_env(conf, stmt.key, stmt.var, w)
    [] stmt.op = "merge"         -> merge(conf, stmt.source, w)
    [] stmt.op = "match_app_env" -> MergeEnvFile(conf, w)
    [] stmt.op = "set_extras"    -> SetExtras(conf, w)

\* each statement ends in `?`: the first Err is the result of Settings::new
RECURSIVE Run(_, _, _), Try(_, _, _)
Run(conf, stmts, w) ==
  IF stmts = << >> THEN [ok |-> TRUE, conf |-> conf]
  ELSE Try(Execute(conf, Head(stmts), w), Tail(stmts), w)

\* `?` on the result r of a statement
Try(r, stmts, w) == IF r.ok THEN Run(r.conf, stmts, w) ELSE r

\* the configuration before the final try_into
MergedConfig(w) == Run(Config_new, Statements, w)

\* line 160: Ok(conf.try_into()?)
TryInto(r) == IF r.ok THEN DeserializeSettings(r.conf.cache) ELSE Err

Settings_new(w) == TryInto(MergedConfig(w))

-----------------------------------------------------------------------------
(* rocket::Config and impl Into<Config> for Settings                        *)

S_critical  == <<"c","r","i","t","i","c","a","l">>
S_normal    == <<"n","o","r","m","a","l">>
S_debug     == <<"d","e","b","u","g">>
S_localhost == <<"l","o","c","a","l","h","o","s","t">>
S_any_addr  == <<"0",".","0",".","0",".","0">>

RocketEnvironments == {"development", "staging", "production"}

DefaultPort    == 8000
\* twice the number of cores; one core is taken
DefaultWorkers == 2
SecretKeyLen   == 44
MaxOctet       == 255

Generated == [provided |-> FALSE, key |-> << >>]
Provided(key) == [provided |-> TRUE, key |-> key]

\* no framework configuration built yet
NoConfig ==
  [environment |-> "none", address |-> << >>, port |-> 0, workers |-> 0,
   log_level |-> "none", secret_key |-> Generated, extras |-> EmptyMap]

\* rocket::Config::new(env): the framework's defaults of the environment
RocketConfig_new(renv) ==
  [environment |-> renv,
   address     |-> IF renv = "development" THEN S_localhost ELSE S_any_addr,
   port        |-> DefaultPort,
   workers     |-> DefaultWorkers,
   log_level   |-> IF renv = "production" THEN "Critical" ELSE "Normal",
   secret_key  |-> Generated,
   extras      |-> EmptyMap]

\* LoggingLevel::from_str
LoggingLevel_from_str(s) ==
  IF s = S_critical THEN [ok |-> TRUE, v |-> "Critical"]
  ELSE IF s = S_normal THEN [ok |-> TRUE, v |-> "Normal"]
  ELSE IF s = S_debug THEN [ok |-> TRUE, v |-> "Debug"]
  ELSE IF s = S_off THEN [ok |-> TRUE, v |-> "Off"]
  ELSE [ok |-> FALSE, v |-> "Error"]

\* the fallback taken to be LoggingLevel::Critical
LogLevelOrCritical(log) ==
  LET lv == LoggingLevel_from_str(log) IN IF lv.ok THEN lv.v ELSE "Critical"

\* line 177: LoggingLevel::from_str(&log).unwrap_or(LoggingLevel::Normal)
LogLevelOrNormal(log) ==
  LET lv == LoggingLevel_from_str(log) IN IF lv.ok THEN lv.v ELSE "Normal"

\* address.parse::<IpAddr>() for a dotted IPv4 literal
IsIpAddr(s) ==
  LET dots == {i \in DOMAIN s : s[i] = "."}
      Part(a, b) == SubSeq(s, a + 1, b - 1)
      OctetOk(t) == /\ Len(t) \in 1..3
                    /\ \A i \in DOMAIN t : t[i] \in DOMAIN DigitValue
                    /\ DigitsValue(t) <= MaxOctet
  IN  /\ Cardinality(dots) = 3
      /\ \A i \in DOMAIN s : s[i] \in DOMAIN DigitValue \cup {"."}
      /\ LET d1 == CHOOSE i \in dots : \A j \in dots : i <= j
             d3 == CHOOSE i \in dots : \A j \in dots : i >= j
             d2 == CHOOSE i \in dots : i # d1 /\ i # d3
         IN  /\ OctetOk(Part(0, d1)) /\ OctetOk(Part(d1, d2))
             /\ OctetOk(Part(d2, d3)) /\ OctetOk(Part(d3, Len(s) + 1))

\* Config::set_address: an address that is no IP literal and does not
\* resolve is refused, and the configuration keeps the address it had.
\* `resolves` is the answer of the host lookup.
set_address(conf, address, resolves) ==
  IF ~IsIpAddr(address) /\ ~resolves THEN conf ELSE [conf EXCEPT !.address = address]

Base64Alphabet ==
  DOMAIN UpperToLower \cup {UpperToLower[c] : c \in DOMAIN UpperToLower}
    \cup DOMAIN DigitValue \cup {"+", "/"}

\* Config::set_secret_key: a key that is not 44 characters of base64 (the
\* encoding of 256 bits) is refused, and the configuration keeps its key.
set_secret_key(conf, key) ==
  IF /\ Len(key) = SecretKeyLen
     /\ \A i \in 1..(SecretKeyLen - 1) : key[i] \in Base64Alphabet
     /\ key[SecretKeyLen] = "="
    THEN [conf EXCEPT !.secret_key = Provided(key)]
    ELSE conf

\* toml::Value::try_from(&String): a string always becomes Value::String
Value_try_from(s) == [ok |-> TRUE, v |-> [toml |-> "String", str |-> s]]

\* the converted table never installed
ApplyExtras_Dropped(conf, extras, err) == [conf |-> conf, stderr |-> err]

\* lines 186-198: every entry converted and collected into one Result; the
\* table is installed only if no entry failed, otherwise the error is printed
ApplyExtras(conf, extras, err) ==
  LET converted == [k \in DOMAIN extras |-> Value_try_from(extras[k])]
  IN  IF \A k \in DOMAIN converted : converted[k].ok
        THEN [conf   |-> [conf EXCEPT !.extras = [k \in DOMAIN converted |-> converted[k].v]],
              stderr |-> err]
        ELSE [conf |-> conf, stderr |-> Append(err, "extras")]

\* impl Into<Config> for Settings
Into(s, renv, resolves, err) ==
  LET c0 == RocketConfig_new(renv)
      c1 == IF s.address.some THEN set_address(c0, s.address.v, resolves) ELSE c0
      c2 == IF s.port.some THEN [c1 EXCEPT !.port = s.port.v] ELSE c1
      c3 == IF s.log.some THEN [c2 EXCEPT !.log_level = LogLevelOrNormal(s.log.v)] ELSE c2
      c4 == IF s.workers.some THEN [c3 EXCEPT !.workers = s.workers.v] ELSE c3
      c5 == IF s.secret_key.some THEN set_secret_key(c4, s.secret_key.v) ELSE c4
  IN  ApplyExtras(c5, s.extras, err)

-----------------------------------------------------------------------------
(* The inputs: the process environment and the working directory            *)

S_APP_PORT       == <<"A","P","P","_","P","O","R","T">>
S_APP_Secret_Key == <<"A","P","P","_","S","e","c","r","e","t","_","K","e","y">>
S_APP_STATIC_DIR == <<"A","P","P","_","S","T","A","T","I","C","_","D","I","R">>
S_APP_LOG        == <<"A","P","P","_","L","O","G">>
S_APP_ADDRESS    == <<"A","P","P","_","A","D","D","R","E","S","S">>
S_APP_WORKERS    == <<"A","P","P","_","W","O","R","K","E","R","S">>
S_app_foo        == <<"a","p","p","_","f","o","o">>
S_foo            == <<"f","o","o">>
S_env            == <<"e","n","v">>
S_Staging        == <<"S","t","a","g","i","n","g">>
S_bogus          == <<"b","o","g","u","s">>
S_bar            == <<"b","a","r">>
S_srv            == <<"/","s","r","v">>
S_route_a        == <<"/","a">>
S_ip             == <<"1","0",".","0",".","0",".","1">>
S_nohost         == <<"n","o","h","o","s","t">>
S_short_key      == <<"k">>
S_valid_key      == [i \in 1..SecretKeyLen |-> IF i = SecretKeyLen THEN "=" ELSE "A"]

\* the most APP_-prefixed variables (APP_ENV aside) set at once
MaxAppVars == 1

\* the values each prefixed variable may hold when it is set
AppVarValues ==
  (S_APP_PORT :> {<< >>, <<"8","1">>, <<"7","0","0","0","0">>, <<"x">>})
    @@ (S_APP_Secret_Key :> {S_valid_key, S_short_key})
    @@ (S_APP_STATIC_DIR :> {S_srv})
    @@ (S_APP_LOG :> {S_bogus, S_debug})
    @@ (S_APP_ADDRESS :> {S_ip, S_nohost})
    @@ (S_APP_WORKERS :> {<<"4">>})
    @@ (S_app_foo :> {S_bar, << >>})

AppVars ==
  UNION {{f \in [names -> UNION {AppVarValues[n] : n \in names}] :
            \A n \in names : f[n] \in AppVarValues[n]} :
         names \in {ns \in SUBSET DOMAIN AppVarValues : Cardinality(ns) <= MaxAppVars}}

PortVars == {EmptyMap, S_PORT :> <<"8","0">>}

AppEnvVars ==
  {EmptyMap} \cup
  {S_APP_ENV :> v : v \in {<< >>, S_development, S_production, S_staging, S_Staging}}

Environments == {a @@ p @@ e : a \in AppVars, p \in PortVars, e \in AppEnvVars}

FileTables ==
  { S_port :> StringValue(<<"8","2">>),
    (S_port :> StringValue(<<"8","3">>)) @@ (S_static_route :> StringValue(S_route_a)),
    S_extras :> TableValue(S_port :> StringValue(<<"1">>)) }

FileStates ==
  {[state |-> "unreadable", tab |-> EmptyMap], [state |-> "malformed", tab |-> EmptyMap]}
    \cup {[state |-> "ok", tab |-> t] : t \in FileTables}

\* the working directory holds `config` and `config-<APP_ENV>`, each or none
Filesystems(e) ==
  LET base  == {EmptyMap} \cup {S_config :> f : f \in FileStates}
      other == {EmptyMap} \cup {(S_config_dash \o AppEnv([env |-> e])) :> f : f \in FileStates}
  IN  {b @@ o : b \in base, o \in other}

-----------------------------------------------------------------------------
(* main                                                                    *)

World == [env |-> env, fs |-> fs]

Init ==
  /\ env \in Environments
  /\ fs \in Filesystems(env)
  /\ pc = "main"
  /\ settings = Err
  /\ rocket = NoConfig
  /\ stderr = << >>

\* main.rs line 9: Settings::new()
Load ==
  /\ pc = "main"
  /\ settings' = Settings_new(World)
  /\ pc' = IF settings'.ok THEN "loaded" ELSE "unwrap_err"
  /\ UNCHANGED <<env, fs, rocket, stderr>>

\* main.rs line 9: .unwrap() of an Err panics, the process ends
Panic ==
  /\ pc = "unwrap_err"
  /\ pc' = "panicked"
  /\ UNCHANGED <<env, fs, settings, rocket, stderr>>

\* main.rs line 10: settings.clone().into()
Project ==
  /\ pc = "loaded"
  /\ \E renv \in RocketEnvironments, resolves \in BOOLEAN :
       LET r == Into(settings.value, renv, resolves, stderr)
       IN  rocket' = r.conf /\ stderr' = r.stderr
  /\ pc' = "configured"
  /\ UNCHANGED <<env, fs, settings>>

\* main.rs lines 10-12: Rocket::custom(..).mount(..).launch()
Launch ==
  /\ pc = "configured"
  /\ pc' = "launched"
  /\ UNCHANGED <<env, fs, settings, rocket, stderr>>

Next == Load \/ Panic \/ Project \/ Launch

Spec == Init /\ [][Next]_vars

-----------------------------------------------------------------------------
(* What each source of Settings::new supplies, in the documented order      *)

EnvNames == {S_development, S_production, S_staging}

Loaded == pc # "main" /\ settings.ok

DefaultsSupplied ==
  (S_static_dir :> StringValue(CARGO_MANIFEST_DIR \o S_public))
    @@ (S_static_route :> StringValue(S_slash_static))

DirectEnvSupplied(w) ==
  IF S_PORT \in DOMAIN w.env THEN S_port :> StringValue(w.env[S_PORT]) ELSE EmptyMap

FileSupplied(w, name) ==
  IF name \in DOMAIN w.fs /\ w.fs[name].state = "ok" THEN w.fs[name].tab ELSE EmptyMap

EnvFileSupplied(w) ==
  IF AppEnv(w) \in EnvNames THEN FileSupplied(w, S_config_dash \o AppEnv(w)) ELSE EmptyMap

IsPrefixed(n) == Len(n) >= 4 /\ to_lowercase(SubSeq(n, 1, 4)) = <<"a","p","p","_">>

PrefixedSupplied(w) ==
  LET names == {n \in DOMAIN w.env : IsPrefixed(n) /\ w.env[n] # << >>}
  IN  [k \in {to_lowercase(SubSeq(n, 5, Len(n))) : n \in names} |->
         StringValue(w.env[CHOOSE n \in names : to_lowercase(SubSeq(n, 5, Len(n))) = k])]

SourceOrder(w) ==
  <<DefaultsSupplied, DirectEnvSupplied(w), FileSupplied(w, S_config),
    EnvFileSupplied(w), PrefixedSupplied(w)>>

StringKeys == {S_static_dir, S_static_route, S_address, S_log, S_secret_key}
U16Keys    == {S_port, S_workers}

\* the field of a Settings record that a key names
Field(s, k) ==
  CASE k = S_static_dir   -> Some(s.static_dir)
    [] k = S_static_route -> Some(s.static_route)
    [] k = S_address      -> s.address
    [] k = S_log          -> s.log
    [] k = S_secret_key   -> s.secret_key
    [] k = S_port         -> s.port
    [] k = S_workers      -> s.workers

\* the field a supplied value reads as
AsField(k, value) ==
  IF k \in U16Keys THEN Some(deserialize_u16(value).v) ELSE Some(into_str(value).v)

\* the sources of `order`, among those numbered in `among`, that supply k
Suppliers(order, among, k) == {i \in among : k \in DOMAIN order[i]}

Last(S) == CHOOSE i \in S : \A j \in S : j <= i

-----------------------------------------------------------------------------
(* Claims                                                                  *)

\* C1: for every setting key that two or more sources supply, the loaded
\* Settings holds the value of the source that comes last in the order
\* defaults, PORT, `config`, `config-<env>`, APP_-prefixed variables.
C1_LaterSourceWins ==
  Loaded =>
    \A k \in StringKeys \cup U16Keys :
      LET S == Suppliers(SourceOrder(World), 1..5, k)
      IN  Cardinality(S) >= 2 =>
            Field(settings.value, k) = AsField(k, SourceOrder(World)[Last(S)][k])

FilteredKeys == {S_address, S_port, S_log, S_workers, S_secret_key}

\* the entries that the `extras` tables of the merged files hold
FileExtras(w) ==
  LET TableOf(m) == IF S_extras \in DOMAIN m /\ m[S_extras].kind = "Table"
                      THEN m[S_extras].tab ELSE EmptyMap
  IN  TableOf(EnvFileSupplied(w)) @@ TableOf(FileSupplied(w, S_config))

FieldNames ==
  {S_static_dir, S_static_route, S_address, S_port, S_log, S_workers, S_secret_key, S_extras}

\* C3: after a successful load `extras` holds no key that is the name of a
\* field of Settings: every APP_-prefixed variable that names a field is
\* filtered out, so no such variable is in `extras` under its key with its
\* value.
C3_NoFieldNameInExtras ==
  Loaded =>
    \A k \in FieldNames \cap DOMAIN PrefixedSupplied(World) :
      ~(/\ k \in DOMAIN settings.value.extras
        /\ settings.value.extras[k] = PrefixedSupplied(World)[k].str)

\* C4: a prefixed variable that is set to the empty string changes nothing:
\* the outcome of the load is the outcome with that variable unset.
C4_EmptyPrefixedVarIgnored ==
  pc # "main" =>
    \A n \in DOMAIN env :
      (IsPrefixed(n) /\ env[n] = << >>) =>
        settings = Settings_new([env |-> MapRemove(env, n), fs |-> fs])

C4_Witness ==
  /\ Loaded
  /\ S_APP_PORT \in DOMAIN env /\ env[S_APP_PORT] = << >>
  /\ S_PORT \notin DOMAIN env
  /\ settings.value.port = Some(82)

\* C5: a file `config-<env>` is merged exactly when APP_ENV is development,
\* production or staging.  With any other APP_ENV the outcome is the one the
\* other sources alone give, whatever `config-<APP_ENV>` holds; with one of
\* the three a malformed `config-<env>` fails the load and its static_route
\* is the loaded one.
C5_EnvFileSelection ==
  pc # "main" =>
    LET name == S_config_dash \o AppEnv(World)
    IN  /\ AppEnv(World) \notin EnvNames =>
             settings = Settings_new([env |-> env, fs |-> MapRemove(fs, name)])
        /\ (AppEnv(World) \in EnvNames /\ name \in DOMAIN fs) =>
             /\ fs[name].state = "malformed" => ~settings.ok
             /\ (settings.ok /\ fs[name].state = "ok" /\ S_static_route \in DOMAIN fs[name].tab)
                  => settings.value.static_route = fs[name].tab[S_static_route].str

C5_Witness ==
  /\ Loaded
  /\ AppEnv(World) = S_Staging
  /\ (S_config_dash \o S_Staging) \in DOMAIN fs
  /\ fs[S_config_dash \o S_Staging].state = "malformed"

\* C6: with APP_ENV=staging and a readable `config-staging`, a key that both
\* files set and no later source sets holds the value of `config-staging`,
\* and a key that only `config` sets holds the value of `config`.
C6_StagingOverBase ==
  (/\ Loaded
   /\ AppEnv(World) = S_staging
   /\ (S_config_dash \o S_staging) \in DOMAIN fs
   /\ fs[S_config_dash \o S_staging].state = "ok") =>
    LET base    == FileSupplied(World, S_config)
        staging == EnvFileSupplied(World)
    IN  \A k \in (StringKeys \cup U16Keys) \ DOMAIN PrefixedSupplied(World) :
          /\ (k \in DOMAIN base /\ k \in DOMAIN staging) =>
               Field(settings.value, k) = AsField(k, staging[k])
          /\ (k \in DOMAIN base /\ k \notin DOMAIN staging) =>
               Field(settings.value, k) = AsField(k, base[k])

Configured == pc \in {"configured", "launched"}

\* a config file that is there and cannot be used
BadFile(w, name) ==
  name \in DOMAIN w.fs /\ w.fs[name].state \in {"malformed", "unreadable"}

MergeStepFails(w) ==
  \/ BadFile(w, S_config)
  \/ AppEnv(w) \in EnvNames /\ BadFile(w, S_config_dash \o AppEnv(w))

\* a merged value that is no number of 16 bits
NotU16(value) ==
  \/ value.kind # "String"
  \/ ~parse_i64(value.str).ok
  \/ parse_i64(value.str).v \notin 0..(U16Modulus - 1)

CannotDeserialize(w) ==
  LET merged == MergedConfig(w)
  IN  /\ merged.ok
      /\ \E k \in U16Keys :
           k \in DOMAIN merged.conf.cache.tab /\ NotU16(merged.conf.cache.tab[k])

\* C7: a load whose merge step fails (a config file that is there and is
\* malformed or unreadable) or whose merged port or workers is no 16-bit
\* number returns an error; after an error main ends without a framework
\* configuration and without a launch; a load with no such file and no such
\* value succeeds, whether or not PORT and the files are there.
C7_FailFast ==
  /\ pc # "main" =>
       /\ (MergeStepFails(World) \/ CannotDeserialize(World)) => ~settings.ok
       /\ ~(MergeStepFails(World) \/ CannotDeserialize(World)) => settings.ok
  /\ (pc # "main" /\ ~settings.ok) =>
       /\ pc \in {"unwrap_err", "panicked"}
       /\ settings.value = NoSettings
       /\ rocket = NoConfig

\* C8: after the projection each of address, port, log level, workers and
\* secret key of the framework configuration is the framework's default when
\* the Settings field is None and the field's value when it is Some.
C8_ProjectionFrame ==
  Configured =>
    LET s == settings.value
        d == RocketConfig_new(rocket.environment)
    IN  /\ rocket.address    = IF s.address.some THEN s.address.v ELSE d.address
        /\ rocket.port       = IF s.port.some THEN s.port.v ELSE d.port
        /\ rocket.log_level  = IF s.log.some THEN LogLevelOrNormal(s.log.v) ELSE d.log_level
        /\ rocket.workers    = IF s.workers.some THEN s.workers.v ELSE d.workers
        /\ rocket.secret_key = IF s.secret_key.some THEN Provided(s.secret_key.v)
                               ELSE d.secret_key

\* the level a name of a logging level stands for
LevelNamed(log) ==
  CASE log = S_critical -> "Critical"
    [] log = S_normal   -> "Normal"
    [] log = S_debug    -> "Debug"
    [] log = S_off      -> "Off"
    [] OTHER            -> "None"

\* C9: after the projection of Settings whose log is Some, the framework's
\* logging level is the level log names, and Normal when log names no level;
\* every other value of the framework configuration is what the projection
\* of the same Settings without log gives.
C9_LogLevel ==
  (Configured /\ settings.value.log.some) =>
    /\ rocket.log_level =
         IF LevelNamed(settings.value.log.v) = "None" THEN "Normal"
         ELSE LevelNamed(settings.value.log.v)
    /\ \E resolves \in BOOLEAN :
         LET other == Into([settings.value EXCEPT !.log = None],
                           rocket.environment, resolves, << >>)
         IN  /\ [rocket EXCEPT !.log_level = other.conf.log_level] = other.conf
             /\ stderr = other.stderr

C9_Witness ==
  /\ Configured
  /\ settings.value.log = Some(S_bogus)
  /\ rocket.environment = "production"
  /\ rocket.log_level = "Normal"

\* C10: extras are installed all or none.  When every entry of `extras`
\* converts, the framework's extras are those entries under the same keys and
\* nothing is printed; when one does not, the framework's extras stay empty,
\* a diagnostic is printed, and the other values are applied as usual.
C10_ExtrasAllOrNothing ==
  Configured =>
    LET ex == settings.value.extras
    IN  IF \A k \in DOMAIN ex : Value_try_from(ex[k]).ok
          THEN /\ DOMAIN rocket.extras = DOMAIN ex
               /\ \A k \in DOMAIN ex : rocket.extras[k] = [toml |-> "String", str |-> ex[k]]
               /\ stderr = << >>
          ELSE /\ rocket.extras = EmptyMap
               /\ stderr # << >>
               /\ \E resolves \in BOOLEAN :
                    rocket = Into([settings.value EXCEPT !.extras = EmptyMap],
                                  rocket.environment, resolves, << >>).conf

C10_Witness ==
  /\ Configured
  /\ DOMAIN settings.value.extras = {S_foo, S_env}
  /\ rocket.extras[S_foo] = [toml |-> "String", str |-> S_bar]
  /\ rocket.extras[S_env] = [toml |-> "String", str |-> S_staging]

====
